---- MODULE Spec2Model ----
(***************************************************************************)
(* pi-fan: a fan controller that samples the SoC temperature, maps it to  *)
(* a speed through a curve of (temperature, speed) control points and     *)
(* writes the speed to a PWM channel.  Model of src/main.rs.              *)
(*                                                                         *)
(* i32 values are kept at their real width.  f32 values are modelled as   *)
(* sign / 24-bit mantissa / exponent with IEEE-754 round-to-nearest-even, *)
(* so that `as f32` and the f32 operators round as the program does.      *)
(***************************************************************************)
EXTENDS Integers, Sequences, FiniteSets

(***************************************************************************)
(* i32                                                                     *)
(***************************************************************************)
MaxI32 == 2147483647

MinI32 == -MaxI32 - 1

\* a - b on i32.  ovf: the mathematical difference is outside i32;
\* v: the two's-complement (wrapping) result, computed without leaving i32.
SubI32(a, b) ==
    IF b < 0 /\ a > MaxI32 + b
    THEN [ovf |-> TRUE, v |-> (((a - MaxI32) - 1) - b) + MinI32]
    ELSE IF b > 0 /\ a < MinI32 + b
    THEN [ovf |-> TRUE, v |-> (((a - MinI32) - b) + MaxI32) + 1]
    ELSE [ovf |-> FALSE, v |-> a - b]

\* a / b on i32 (b > 0): Rust's division truncates toward zero.
DivI32(a, b) == IF a >= 0 THEN a \div b ELSE -((-a) \div b)

(***************************************************************************)
(* f32: [k, s, m, e].  k = "fin": the value (-1)^s * m * 2^e, with m = 0  *)
(* (and e = 0) or 2^23 <= m < 2^24.  k = "inf" / "nan" as in IEEE-754.    *)
(* Every value the program computes stays far inside the normal range     *)
(* (magnitudes between 2^-60 and 2^70), so subnormals and overflow to     *)
(* infinity are not modelled.                                             *)
(***************************************************************************)
P23 == 2^23

P24 == 2^24

P12 == 2^12

RECURSIVE BitLen(_)
BitLen(n) == IF n = 0 THEN 0 ELSE 1 + BitLen(n \div 2)

F32Zero(s) == [k |-> "fin", s |-> s, m |-> 0, e |-> 0]

F32Inf(s) == [k |-> "inf", s |-> s, m |-> 0, e |-> 0]

F32NaN == [k |-> "nan", s |-> 0, m |-> 0, e |-> 0]

\* m0 * 2^e with 2^23 <= m0 < 2^24, to be rounded by what was cut off:
\* cmp = 1 (more than half an ulp), 0 (exactly half), -1 (less than half).
F32Finish(s, m0, cmp, e) ==
    LET up == cmp = 1 \/ (cmp = 0 /\ m0 % 2 = 1)
        m1 == IF up THEN m0 + 1 ELSE m0
    IN  IF m1 = P24
        THEN [k |-> "fin", s |-> s, m |-> P23, e |-> e + 1]
        ELSE [k |-> "fin", s |-> s, m |-> m1, e |-> e]

\* The f32 nearest to (-1)^s * (hi * 2^24 + lo) * 2^e, ties to even
\* (0 <= lo < 2^24, 0 <= hi < 2^30).
F32Round(s, hi, lo, e) ==
    IF hi = 0 /\ lo = 0 THEN F32Zero(s)
    ELSE IF hi = 0
    THEN LET nb == BitLen(lo)
         IN  [k |-> "fin", s |-> s, m |-> lo * 2^(24 - nb), e |-> e - (24 - nb)]
    ELSE LET nb == BitLen(hi)
         IN  IF nb <= 24
             THEN LET m0   == hi * 2^(24 - nb) + (lo \div 2^nb)
                      rem  == lo % 2^nb
                      half == 2^(nb - 1)
                      cmp  == IF rem > half THEN 1 ELSE IF rem = half THEN 0 ELSE -1
                  IN  F32Finish(s, m0, cmp, e + nb)
             ELSE LET kk   == nb - 24
                      m0   == hi \div 2^kk
                      rh   == hi % 2^kk
                      half == 2^(kk - 1)
                      cmp  == IF rh > half \/ (rh = half /\ lo > 0) THEN 1
                              ELSE IF rh = half /\ lo = 0 THEN 0 ELSE -1
                  IN  F32Finish(s, m0, cmp, e + nb)

\* `v as f32` for an i32 v: the nearest f32 (exact only up to 24 bits).
I32AsF32(v) ==
    IF v = MinI32 THEN F32Round(1, 128, 0, 0)
    ELSE LET a == IF v < 0 THEN -v ELSE v
         IN  F32Round(IF v < 0 THEN 1 ELSE 0, a \div P24, a % P24, 0)

XorSign(a, b) == (a + b) % 2

\* x * y on f32.
F32Mul(x, y) ==
    IF x.k = "nan" \/ y.k = "nan" THEN F32NaN
    ELSE IF x.k = "inf" \/ y.k = "inf"
    THEN IF (x.k = "fin" /\ x.m = 0) \/ (y.k = "fin" /\ y.m = 0)
         THEN F32NaN ELSE F32Inf(XorSign(x.s, y.s))
    ELSE IF x.m = 0 \/ y.m = 0 THEN F32Zero(XorSign(x.s, y.s))
    ELSE LET a1  == x.m \div P12
             a0  == x.m % P12
             b1  == y.m \div P12
             b0  == y.m % P12
             mid == a1 * b0 + a0 * b1
             lof == a0 * b0 + (mid % P12) * P12
             hi  == a1 * b1 + (mid \div P12) + (lof \div P24)
         IN  F32Round(XorSign(x.s, y.s), hi, lof % P24, x.e + y.e)

\* Long division: n more quotient bits of r / b after the quotient q.
RECURSIVE DivBits(_, _, _, _)
DivBits(q, r, b, n) ==
    IF n = 0 THEN <<q, r>>
    ELSE IF 2 * r >= b THEN DivBits(2 * q + 1, 2 * r - b, b, n - 1)
    ELSE DivBits(2 * q, 2 * r, b, n - 1)

\* x / y on f32.
F32Div(x, y) ==
    IF x.k = "nan" \/ y.k = "nan" THEN F32NaN
    ELSE IF x.k = "inf"
    THEN IF y.k = "inf" THEN F32NaN ELSE F32Inf(XorSign(x.s, y.s))
    ELSE IF y.k = "inf" THEN F32Zero(XorSign(x.s, y.s))
    ELSE IF y.m = 0
    THEN IF x.m = 0 THEN F32NaN ELSE F32Inf(XorSign(x.s, y.s))
    ELSE IF x.m = 0 THEN F32Zero(XorSign(x.s, y.s))
    ELSE LET n   == IF x.m >= y.m THEN 23 ELSE 24
             qr  == DivBits(x.m \div y.m, x.m % y.m, y.m, n)
             r2  == 2 * qr[2]
             cmp == IF r2 > y.m THEN 1 ELSE IF r2 = y.m THEN 0 ELSE -1
         IN  F32Finish(XorSign(x.s, y.s), qr[1], cmp, (x.e - y.e) - n)

\* |x| >= |y| for finite non-zero x, y.
F32MagGeq(x, y) == x.e > y.e \/ (x.e = y.e /\ x.m >= y.m)

\* x + y on f32.
F32Add(x, y) ==
    IF x.k = "nan" \/ y.k = "nan" THEN F32NaN
    ELSE IF x.k = "inf"
    THEN IF y.k = "inf" /\ y.s # x.s THEN F32NaN ELSE x
    ELSE IF y.k = "inf" THEN y
    ELSE IF x.m = 0 /\ y.m = 0 THEN F32Zero(IF x.s = 1 /\ y.s = 1 THEN 1 ELSE 0)
    ELSE IF x.m = 0 THEN y
    ELSE IF y.m = 0 THEN x
    ELSE LET big   == IF F32MagGeq(x, y) THEN x ELSE y
             small == IF F32MagGeq(x, y) THEN y ELSE x
             d     == big.e - small.e
         IN  IF d > 25 THEN big
             ELSE LET bhi == IF d <= 24 THEN big.m \div 2^(24 - d) ELSE big.m * 2
                      blo == IF d <= 24 THEN (big.m % 2^(24 - d)) * 2^d ELSE 0
                  IN  IF big.s = small.s
                      THEN LET lo == blo + small.m
                           IN  F32Round(big.s, bhi + (lo \div P24), lo % P24, small.e)
                      ELSE IF bhi = 0 /\ blo = small.m THEN F32Zero(0)
                      ELSE IF blo >= small.m
                      THEN F32Round(big.s, bhi, blo - small.m, small.e)
                      ELSE F32Round(big.s, bhi - 1, (blo + P24) - small.m, small.e)

(***************************************************************************)
(* Curve: the HashMap<i32, i32> of control points, a function from the    *)
(* stored temperatures to their speeds.                                   *)
(***************************************************************************)
FAIL_TEMP == -100

FAIL_SPEED == I32AsF32(50)

EmptyMap == [t \in {} |-> 0]

\* Insert as it would be if an existing key kept its first value.
Insert_KeepFirst(c, t, s) ==
    [x \in DOMAIN c \cup {t} |-> IF x \in DOMAIN c THEN c[x] ELSE s]

\* HashMap::insert: a later value for a key replaces the earlier one.
Insert(c, t, s) == [x \in DOMAIN c \cup {t} |-> IF x = t THEN s ELSE c[x]]

RECURSIVE InsertAll(_, _, _)
InsertAll(c, items, i) ==
    IF i > Len(items) THEN c
    ELSE InsertAll(Insert(c, items[i][1], items[i][2]), items, i + 1)

\* Curve::from(items): insert every (temp, speed) in the order given.
CurveFrom(items) == InsertAll(EmptyMap, items, 1)

MinOf(S) == CHOOSE x \in S : \A y \in S : x <= y

\* keys().cloned().collect() followed by sort(): the keys, ascending.
RECURSIVE SortedKeys(_)
SortedKeys(S) ==
    IF S = {} THEN <<>> ELSE <<MinOf(S)>> \o SortedKeys(S \ {MinOf(S)})

\* The outcome of a call: a returned f32, or a panic.
Ret(v) == [ok |-> TRUE, val |-> v, why |-> ""]

Panic(why) == [ok |-> FALSE, val |-> F32NaN, why |-> why]

\* The i32 differences of get_value_between_points, in evaluation order.
Diffs(y1, y2, x1, x2, temp) ==
    [dy |-> SubI32(y2, y1), dx |-> SubI32(x2, x1), dt |-> SubI32(temp, x1)]

\* get_value_between_points.  An overflowing i32 subtraction panics when
\* overflow checks are compiled in (the dev profile, where debug_assertions
\* is set) and wraps otherwise (the release profile).
get_value_between_points(curve, x1, x2, temp, debug) ==
    IF x1 \notin DOMAIN curve \/ x2 \notin DOMAIN curve
    THEN Panic("unwrap on None")
    ELSE LET y1 == curve[x1]
             y2 == curve[x2]
             d  == Diffs(y1, y2, x1, x2, temp)
         IN  IF debug /\ (d.dy.ovf \/ d.dx.ovf \/ d.dt.ovf)
             THEN Panic("attempt to subtract with overflow")
             ELSE LET slope == F32Div(I32AsF32(d.dy.v), I32AsF32(d.dx.v))
                  IN  Ret(F32Add(F32Mul(slope, I32AsF32(d.dt.v)), I32AsF32(y1)))

\* Scan as it would be if the loop stopped one index early.
RECURSIVE Scan_StopEarly(_, _, _, _, _)
Scan_StopEarly(keys, i, x1, x2, temp) ==
    IF i >= Len(keys) - 1 THEN <<x1, x2>>
    ELSE IF x1 <= temp /\ temp < x2 THEN <<x1, x2>>
    ELSE Scan_StopEarly(keys, i + 1, x2, keys[i + 1], temp)

\* The for loop of get_value_at: i is the 0-based index of the source.
RECURSIVE Scan(_, _, _, _, _)
Scan(keys, i, x1, x2, temp) ==
    IF i >= Len(keys) THEN <<x1, x2>>
    ELSE IF x1 <= temp /\ temp < x2 THEN <<x1, x2>>
    ELSE Scan(keys, i + 1, x2, keys[i + 1], temp)

\* The pair (x1, x2) the else-branch of get_value_at interpolates between.
Bracket(keys, temp) == Scan(keys, 2, keys[1], keys[2], temp)

\* get_value_at as it would be if the clamps were tested before the exact match.
get_value_at_ClampFirst(curve, temp, debug) ==
    LET keys == SortedKeys(DOMAIN curve)
    IN  IF Len(keys) = 0 THEN Panic("unwrap on None")
        ELSE IF temp <= keys[1] THEN Ret(I32AsF32(curve[keys[1]]))
        ELSE IF temp >= keys[Len(keys)] THEN Ret(I32AsF32(curve[keys[1]]))
        ELSE IF temp \in DOMAIN curve THEN Ret(I32AsF32(curve[temp]))
        ELSE LET b == Bracket(keys, temp)
             IN  get_value_between_points(curve, b[1], b[2], temp, debug)

\* get_value_at as it would be if the high clamp returned the speed at `last`.
get_value_at_HighLast(curve, temp, debug) ==
    IF temp \in DOMAIN curve THEN Ret(I32AsF32(curve[temp]))
    ELSE LET keys == SortedKeys(DOMAIN curve)
         IN  IF Len(keys) = 0 THEN Panic("unwrap on None")
             ELSE IF temp <= keys[1] THEN Ret(I32AsF32(curve[keys[1]]))
             ELSE IF temp >= keys[Len(keys)] THEN Ret(I32AsF32(curve[keys[Len(keys)]]))
             ELSE LET b == Bracket(keys, temp)
                  IN  get_value_between_points(curve, b[1], b[2], temp, debug)

\* Curve::get_value_at.
get_value_at(curve, temp, debug) ==
    IF temp \in DOMAIN curve THEN Ret(I32AsF32(curve[temp]))
    ELSE LET keys == SortedKeys(DOMAIN curve)
         IN  IF Len(keys) = 0
             THEN Panic("unwrap on None")
             ELSE LET first == keys[1]
                      last  == keys[Len(keys)]
                  IN  IF temp <= first THEN Ret(I32AsF32(curve[first]))
                      ELSE IF temp >= last THEN Ret(I32AsF32(curve[first]))
                      ELSE IF Len(keys) < 2 THEN Panic("index out of bounds")
                      ELSE LET b == Bracket(keys, temp)
                           IN  get_value_between_points(curve, b[1], b[2], temp, debug)

\* get_speed as it would be without the FAIL_TEMP test.
get_speed_NoFallback(temp, curve, debug) == get_value_at(curve, temp, debug)

\* get_speed.
get_speed(temp, curve, debug) ==
    IF temp = FAIL_TEMP THEN Ret(FAIL_SPEED) ELSE get_value_at(curve, temp, debug)

\* get_temp on one outcome of reading the sensor file: the read fails, or
\* the trimmed content parses as an i32 (raw) or does not.
get_temp(sensor) ==
    IF sensor.kind = "readfail" THEN [ok |-> FALSE, v |-> 0, why |-> "Failed to read temp"]
    ELSE IF sensor.kind = "garbage" THEN [ok |-> TRUE, v |-> DivI32(FAIL_TEMP, 1000), why |-> ""]
    ELSE [ok |-> TRUE, v |-> DivI32(sensor.raw, 1000), why |-> ""]

\* speed * 256.0, then `as f64` (exact): the argument of set_duty_cycle.
DutyOf(speed) ==
    F32Mul(speed, I32AsF32(256))

(***************************************************************************)
(* State.  sensor, temp, speed and duty record the latest tick (or call). *)
(***************************************************************************)
VARIABLES
    pc,                 \* where main is: Start, Loaded, Sampling, Idle, Panicked
    debug_assertions,   \* cfg!(debug_assertions): overflow checks compiled in
    raw_curve,          \* config.fan_curve.raw_curve
    curve,              \* the Curve built from it
    sensor,             \* what reading the sensor file gave
    temp,               \* <<t>>: the temperature get_temp returned; <<>>: none
    speed,              \* the outcome of get_speed / get_value_at
    pwm,                \* "off", or "enabled" once Pwm::with_frequency succeeded
    duty,               \* the latest argument of set_duty_cycle
    panic               \* "" or what the process panicked with

vars == <<pc, debug_assertions, raw_curve, curve, sensor, temp, speed, pwm, duty, panic>>

NoSensor == [kind |-> "none", raw |-> 0]

NoSpeed == Panic("not called")

(***************************************************************************)
(* Inputs.                                                                 *)
(***************************************************************************)
\* Longest control-point list drawn for the calls of Curve's functions.
MaxPoints == 3

KeyTemps == {MinI32, FAIL_TEMP, 0, 30}

Speeds == {-29, 1, MaxI32}

Args == KeyTemps \cup {-50, 10, MaxI32}

ItemSeqs == UNION {[1..n -> KeyTemps \X Speeds] : n \in 0..MaxPoints}

\* raw_curve values of the configuration files drawn for main.
Configs ==
    { <<>>,
      << <<0, 0>>, <<50, 500>> >>,
      << <<30, 40>>, <<60, 100>>, <<30, 35>> >>,
      << <<FAIL_TEMP, 20>>, <<0, 30>>, <<60, 90>> >>,
      << <<MinI32, 0>>, <<30, 1>> >> }

\* Outcomes of reading /sys/class/thermal/thermal_zone0/temp.
SensorOutcomes ==
    { [kind |-> "readfail", raw |-> 0], [kind |-> "garbage", raw |-> 0] }
    \cup { [kind |-> "int", raw |-> r] :
             r \in {25000, 45999, 0, -1500, -100000, 70000, MaxI32} }

(***************************************************************************)
(* main.                                                                   *)
(***************************************************************************)
Init ==
    /\ pc = "Start"
    /\ debug_assertions \in BOOLEAN
    /\ raw_curve = <<>>
    /\ curve = EmptyMap
    /\ sensor = NoSensor
    /\ temp = <<>>
    /\ speed = NoSpeed
    /\ pwm = "off"
    /\ duty = F32Zero(0)
    /\ panic = ""

\* Read and parse the configuration file (either unwrap may panic), then
\* Curve::from(config.fan_curve.raw_curve).
LoadConfig ==
    /\ pc = "Start"
    /\ \E ok \in BOOLEAN, items \in Configs :
         IF ok
         THEN /\ raw_curve' = items
              /\ curve' = CurveFrom(items)
              /\ pc' = "Loaded"
              /\ panic' = panic
         ELSE /\ pc' = "Panicked"
              /\ panic' = "config"
              /\ UNCHANGED <<raw_curve, curve>>
    /\ UNCHANGED <<debug_assertions, sensor, temp, speed, pwm, duty>>

\* Pwm::with_frequency(Pwm0, 25000.0, 0.0, Normal, true).unwrap().
InitPwm ==
    /\ pc = "Loaded"
    /\ \E ok \in BOOLEAN :
         IF ok
         THEN /\ pwm' = "enabled"
              /\ duty' = F32Zero(0)
              /\ pc' = "Sampling"
              /\ panic' = panic
         ELSE /\ pc' = "Panicked"
              /\ panic' = "pwm"
              /\ UNCHANGED <<pwm, duty>>
    /\ UNCHANGED <<debug_assertions, raw_curve, curve, sensor, temp, speed>>

\* update_speed(&pwm_pin, &curve): one tick of the loop.
update_speed(s, written) ==
    LET t == get_temp(s)
    IN  /\ sensor' = s
        /\ IF ~t.ok
           THEN /\ pc' = "Panicked"
                /\ panic' = t.why
                /\ temp' = <<>>
                /\ speed' = NoSpeed
                /\ duty' = duty
           ELSE LET sp == get_speed(t.v, curve, debug_assertions)
                IN  /\ temp' = <<t.v>>
                    /\ speed' = sp
                    /\ IF ~sp.ok
                       THEN /\ pc' = "Panicked"
                            /\ panic' = sp.why
                            /\ duty' = duty
                       ELSE /\ duty' = DutyOf(sp.val)
                            /\ pc' = IF written THEN "Idle" ELSE "Panicked"
                            /\ panic' = IF written THEN panic ELSE "set_duty_cycle"

UpdateSpeed ==
    /\ pc = "Sampling"
    /\ \E s \in SensorOutcomes, written \in BOOLEAN : update_speed(s, written)
    /\ UNCHANGED <<debug_assertions, raw_curve, curve, pwm>>

\* thread::sleep(update_rate), then the next iteration.
Sleep ==
    /\ pc = "Idle"
    /\ pc' = "Sampling"
    /\ UNCHANGED <<debug_assertions, raw_curve, curve, sensor, temp, speed, pwm, duty, panic>>

Next == LoadConfig \/ InitPwm \/ UpdateSpeed \/ Sleep

Spec == Init /\ [][Next]_vars

(***************************************************************************)
(* Curve's functions and get_speed called on drawn inputs.                *)
(***************************************************************************)
InitFn ==
    /\ pc = "Call"
    /\ debug_assertions \in BOOLEAN
    /\ raw_curve \in ItemSeqs
    /\ curve = EmptyMap
    /\ sensor = NoSensor
    /\ temp \in {<<t>> : t \in Args}
    /\ speed = NoSpeed
    /\ pwm = "off"
    /\ duty = F32Zero(0)
    /\ panic = ""

CallFrom ==
    /\ pc = "Call"
    /\ curve' = CurveFrom(raw_curve)
    /\ pc' = "Built"
    /\ UNCHANGED <<debug_assertions, raw_curve, sensor, temp, speed, pwm, duty, panic>>

CallGetValueAt ==
    /\ pc = "Built"
    /\ speed' = get_value_at(curve, temp[1], debug_assertions)
    /\ pc' = "get_value_at"
    /\ UNCHANGED <<debug_assertions, raw_curve, curve, sensor, temp, pwm, duty, panic>>

CallGetSpeed ==
    /\ pc = "Built"
    /\ speed' = get_speed(temp[1], curve, debug_assertions)
    /\ pc' = "get_speed"
    /\ UNCHANGED <<debug_assertions, raw_curve, curve, sensor, temp, pwm, duty, panic>>

NextFn == CallFrom \/ CallGetValueAt \/ CallGetSpeed

SpecFn == InitFn /\ [][NextFn]_vars
(***************************************************************************)
(* Properties of Curve's functions and get_speed (under SpecFn).          *)
(***************************************************************************)
MaxOf(S) == CHOOSE x \in S : \A y \in S : x >= y

\* The f32 f is finite and its value is the integer v (an i32).
F32EqInt(f, v) ==
    /\ f.k = "fin"
    /\ IF v = 0 THEN f.m = 0
       ELSE /\ f.m # 0
            /\ f.s = (IF v < 0 THEN 1 ELSE 0)
            /\ IF v = MinI32 THEN f.m = P23 /\ f.e = 8
               ELSE LET a == IF v < 0 THEN -v ELSE v
                    IN  IF f.e >= 0
                        THEN f.e <= 7 /\ a % 2^f.e = 0 /\ a \div 2^f.e = f.m
                        ELSE -f.e <= 23 /\ f.m % 2^(-f.e) = 0 /\ f.m \div 2^(-f.e) = a

\* |v| <= 2^24: the i32 values every f32 holds exactly.
FitsF32(v) == -P24 <= v /\ v <= P24

Temps(items) == {items[i][1] : i \in DOMAIN items}

\* The speed of the last entry of items with temperature t.
LastSpeed(items, t) == items[MaxOf({i \in DOMAIN items : items[i][1] = t})][2]

Duplicated(items, t) ==
    \E i, j \in DOMAIN items : i < j /\ items[i][1] = t /\ items[j][1] = t

Looked == pc = "get_value_at"

\* C10: the curve stores one control point per distinct temperature of the
\* input, holding the speed of the last entry with that temperature, and
\* get_value_at on a duplicated temperature returns that last-listed speed
\* (as the f32 it is returned as).
C10_LastWins ==
    /\ pc # "Call" =>
         /\ DOMAIN curve = Temps(raw_curve)
         /\ \A t \in DOMAIN curve : curve[t] = LastSpeed(raw_curve, t)
    /\ (Looked /\ Duplicated(raw_curve, temp[1])) =>
         speed = Ret(I32AsF32(LastSpeed(raw_curve, temp[1])))

\* A lookup of a temperature listed twice with different speeds.
C10_Witness ==
    /\ Looked
    /\ \E i, j \in DOMAIN raw_curve :
         /\ i < j
         /\ raw_curve[i][1] = temp[1]
         /\ raw_curve[j][1] = temp[1]
         /\ raw_curve[i][2] # raw_curve[j][2]
         /\ raw_curve[j][2] = LastSpeed(raw_curve, temp[1])
         /\ F32EqInt(speed.val, raw_curve[j][2])

\* C2 as stated: get_value_at of a stored temperature returns exactly the
\* stored speed, wherever the temperature lies in the key order.
C2_ExactMatchExact ==
    (Looked /\ temp[1] \in DOMAIN curve) =>
        speed.ok /\ F32EqInt(speed.val, curve[temp[1]])

\* C2 amended: get_value_at of a stored temperature returns the stored
\* speed converted to f32 (never a clamp or an interpolation), which is
\* exactly the stored speed whenever its magnitude is at most 2^24.
C2_ExactMatch ==
    (Looked /\ temp[1] \in DOMAIN curve) =>
        /\ speed = Ret(I32AsF32(curve[temp[1]]))
        /\ FitsF32(curve[temp[1]]) => F32EqInt(speed.val, curve[temp[1]])

\* A lookup of the maximum stored temperature of a curve whose minimum
\* temperature holds another speed.
C2_Witness ==
    /\ Looked
    /\ temp[1] \in DOMAIN curve
    /\ temp[1] = MaxOf(DOMAIN curve)
    /\ curve[MinOf(DOMAIN curve)] # curve[temp[1]]
    /\ F32EqInt(speed.val, curve[temp[1]])

\* C6 as stated: for t >= the maximum stored temperature, get_value_at
\* returns the speed stored at the minimum temperature, also at t = max.
C6_HighClampIncl ==
    (Looked /\ DOMAIN curve # {} /\ temp[1] >= MaxOf(DOMAIN curve)) =>
        speed = Ret(I32AsF32(curve[MinOf(DOMAIN curve)]))

\* C6 amended: for t > the maximum stored temperature, get_value_at returns
\* the speed stored at the minimum temperature; at t = max it returns the
\* speed stored at the maximum temperature.
C6_HighClamp ==
    (Looked /\ DOMAIN curve # {}) =>
        LET lo == MinOf(DOMAIN curve)
            hi == MaxOf(DOMAIN curve)
        IN  /\ temp[1] > hi => speed = Ret(I32AsF32(curve[lo]))
            /\ temp[1] = hi => speed = Ret(I32AsF32(curve[hi]))

\* A lookup above the maximum of a curve whose minimum and maximum
\* temperatures hold different speeds.
C6_Witness ==
    /\ Looked
    /\ DOMAIN curve # {}
    /\ temp[1] > MaxOf(DOMAIN curve)
    /\ curve[MinOf(DOMAIN curve)] # curve[MaxOf(DOMAIN curve)]
    /\ FitsF32(curve[MinOf(DOMAIN curve)])
    /\ F32EqInt(speed.val, curve[MinOf(DOMAIN curve)])

\* C4: get_speed(FAIL_TEMP, curve) is FAIL_SPEED = 50.0 for every curve,
\* the empty one and one that stores FAIL_TEMP included; for any other
\* temperature get_speed is get_value_at of the curve.
C4_Fallback ==
    pc = "get_speed" =>
        IF temp[1] = FAIL_TEMP
        THEN speed.ok /\ F32EqInt(speed.val, 50)
        ELSE speed = get_value_at(curve, temp[1], debug_assertions)

\* get_speed(FAIL_TEMP, curve) on a curve that stores FAIL_TEMP.
C4_Witness ==
    /\ pc = "get_speed"
    /\ temp[1] = FAIL_TEMP
    /\ FAIL_TEMP \in DOMAIN curve
    /\ curve[FAIL_TEMP] # 50
    /\ speed.ok
\* temp is not stored and lies strictly between the minimum and the
\* maximum stored temperature: the lookups that interpolate.
Interpolates(c, t) ==
    /\ t \notin DOMAIN c
    /\ DOMAIN c # {}
    /\ MinOf(DOMAIN c) < t
    /\ t < MaxOf(DOMAIN c)

\* The adjacent stored temperatures around t.
Below(c, t) == MaxOf({x \in DOMAIN c : x < t})

Above(c, t) == MinOf({x \in DOMAIN c : x > t})

Abs(v) == IF v < 0 THEN -v ELSE v

RECURSIVE TrailingZeros(_)
TrailingZeros(n) == IF n % 2 = 1 THEN 0 ELSE 1 + TrailingZeros(n \div 2)

\* The f32 f is finite and its value is the rational p / q exactly
\* (q > 0; p and q small enough that no product below leaves the integers
\* TLC computes with: every comparison is made by division).
F32EqRat(f, p, q) ==
    /\ f.k = "fin"
    /\ IF p = 0 THEN f.m = 0
       ELSE /\ f.m # 0
            /\ f.s = (IF p < 0 THEN 1 ELSE 0)
            /\ LET tz == TrailingZeros(f.m)
                   mo == f.m \div 2^tz
                   ex == f.e + tz
               IN  IF ex >= 0
                   THEN ex <= 30 /\ Abs(p) % q = 0 /\ Abs(p) \div q = mo * 2^ex
                   ELSE /\ -ex <= 30
                        /\ q % 2^(-ex) = 0
                        /\ Abs(p) % (q \div 2^(-ex)) = 0
                        /\ Abs(p) \div (q \div 2^(-ex)) = mo

SmallLimit == 4096

Small(v) == -SmallLimit <= v /\ v <= SmallLimit

ExactInF32(y1, y2, x1, x2, t) ==
    LET d == Diffs(y1, y2, x1, x2, t)
    IN  /\ ~d.dy.ovf /\ ~d.dx.ovf /\ ~d.dt.ovf
        /\ FitsF32(y1) /\ FitsF32(d.dy.v) /\ FitsF32(d.dx.v) /\ FitsF32(d.dt.v)
        /\ d.dy.v % d.dx.v = 0
        /\ Abs(d.dy.v \div d.dx.v) <= P24 \div d.dt.v
        /\ FitsF32(y1 + (d.dy.v \div d.dx.v) * d.dt.v)

C9_Total ==
    (Looked /\ DOMAIN curve # {}) =>
        /\ speed.ok
        /\ speed.val.k = "fin"
        /\ Interpolates(curve, temp[1]) =>
             LET keys == SortedKeys(DOMAIN curve)
                 b    == Bracket(keys, temp[1])
                 d    == Diffs(curve[b[1]], curve[b[2]], b[1], b[2], temp[1])
             IN  /\ Len(keys) >= 2
                 /\ b[1] \in DOMAIN curve /\ b[2] \in DOMAIN curve
                 /\ d.dx.v # 0
                 /\ ~d.dy.ovf /\ ~d.dx.ovf /\ ~d.dt.ovf
(***************************************************************************)
(* Properties of main and its loop (under Spec).                          *)
(***************************************************************************)
SensorFailed == sensor.kind \in {"readfail", "garbage"}

\* C3: when reading the sensor file fails or its content is no integer, the
\* temperature delivered to the tick is FAIL_TEMP = -100; otherwise it is
\* the raw value divided by 1000.
C3_Sentinel ==
    sensor.kind # "none" =>
        IF SensorFailed THEN temp = <<FAIL_TEMP>>
        ELSE temp = <<DivI32(sensor.raw, 1000)>>

\* a * 2^x = b * 2^y for positive integers a, b.
DyadicEq(a, x, b, y) ==
    /\ a \div 2^TrailingZeros(a) = b \div 2^TrailingZeros(b)
    /\ x + TrailingZeros(a) = y + TrailingZeros(b)

\* C5: the value handed to set_duty_cycle is the tick's speed scaled by
\* 256 / 100 (100 * duty = 256 * speed); with the curve (0,0),(50,500) and
\* temperature 25 the speed is 250.0 and the actuator receives 640.
C5_DutyScaled ==
    (pc = "Idle" \/ panic = "set_duty_cycle") =>
        /\ speed.ok
        /\ duty.k = "fin"
        /\ duty.s = speed.val.s
        /\ (duty.m = 0) = (speed.val.m = 0)
        /\ duty.m # 0 => DyadicEq(25 * duty.m, duty.e, speed.val.m, speed.val.e + 6)
        /\ (curve = CurveFrom(<< <<0, 0>>, <<50, 500>> >>) /\ temp = <<25>>) =>
             F32EqInt(speed.val, 250) /\ F32EqInt(duty, 640)

InLoop(p) == p \in {"Sampling", "Idle"}

\* C7: once the loop has started only a failed actuator write ends it; a
\* tick whose sensor read fails still computes the fallback speed and
\* writes the actuator; after a tick whose write succeeds the loop sleeps
\* and samples again.
C7_OnlyActuatorEndsLoop ==
    [][ /\ (InLoop(pc) /\ ~InLoop(pc')) => panic' = "set_duty_cycle"
        /\ (pc = "Sampling" /\ pc' # "Sampling" /\ SensorFailed') =>
             /\ speed' = Ret(FAIL_SPEED)
             /\ duty' = DutyOf(FAIL_SPEED)
             /\ pc' = "Idle" \/ panic' = "set_duty_cycle"
        /\ (pc = "Sampling" /\ pc' # "Sampling" /\ panic' # "set_duty_cycle") => pc' = "Idle"
        /\ pc = "Idle" => pc' = "Sampling" ]_vars

\* C8: a Curve built from no control points fails at construction, before
\* the PWM channel is initialised and before any tick: no empty Curve is
\* ever available to the loop or to a lookup.
C8_EmptyRejected ==
    (pc \in {"Loaded", "Sampling", "Idle"} \/ pwm = "enabled" \/ sensor.kind # "none") =>
        DOMAIN curve # {}
====
